---------------------------- MODULE Spec2Model ----------------------------
(***************************************************************************)
(* Model of package bayesbow (src/bow.go and the package configuration):   *)
(* an incremental multinomial Naive Bayes classifier over a bag of words.  *)
(*                                                                         *)
(* A Go string is a sequence of bytes (0..255); a Go map is a function on  *)
(* the set of keys that are present; a Go slice is a function on 0..n-1.   *)
(* A float64 that the program computes from small integer counts is kept   *)
(* as the exact fraction <<numerator, denominator>> in lowest terms.       *)
(***************************************************************************)
EXTENDS Integers, Sequences, FiniteSets, TLC

VARIABLES
    dd,         \* the corpus, a Bow
    conf,       \* the package variable conf
    disk,       \* the file Save writes and Load reads
    op,         \* the last call: its name and arguments
    ret,        \* what the last call returned
    err,        \* "" or the panic that ended the program
    labelLens,  \* the lengths of the label lists given to Add so far
    calls       \* the number of calls made so far

vars == <<dd, conf, disk, op, ret, err, labelLens, calls>>

\* ---------------------------------------------------------------- bounds
\* The runs checked are those of at most MaxCalls calls on the corpus.
MaxCalls == 3

\* ------------------------------------------------------ maps and slices
\* m[k] of a Go map: the zero value when the key is absent.
Get(m, k) == IF k \in DOMAIN m THEN m[k] ELSE 0

\* m[k] = v of a Go map.
Put(m, k, v) == [x \in (DOMAIN m) \cup {k} |-> IF x = k THEN v ELSE m[x]]

\* A Go slice holding the elements of a sequence, indexed from 0.
Slice(s) == [i \in 0..(Len(s) - 1) |-> s[i + 1]]

\* make([]T, n) with zero value z.
MakeSlice(n, z) == [i \in 0..(n - 1) |-> z]

RECURSIVE SumOver(_, _)
SumOver(m, keys) ==
    IF keys = {} THEN 0
    ELSE LET k == CHOOSE x \in keys : TRUE
         IN m[k] + SumOver(m, keys \ {k})

\* The sum of the values of a map.
MapSum(m) == SumOver(m, DOMAIN m)

\* --------------------------------------------------------------- floats
RECURSIVE GCD(_, _)
GCD(a, b) == IF b = 0 THEN a ELSE GCD(b, a % b)

\* float64(n) / float64(d) for small positive counts.
Rat(n, d) == LET g == GCD(n, d) IN <<n \div g, d \div g>>
RMul(a, b) == Rat(a[1] * b[1], a[2] * b[2])
RAdd(a, b) == Rat(a[1] * b[2] + b[1] * a[2], a[2] * b[2])
RDiv(a, b) == Rat(a[1] * b[2], a[2] * b[1])
RGt(a, b) == a[1] * b[2] > b[1] * a[2]
RGe(a, b) == a[1] * b[2] >= b[1] * a[2]

RECURSIVE RSumTo(_, _)
\* v[0] + ... + v[n-1]
RSumTo(v, n) == IF n = 0 THEN <<0, 1>> ELSE RAdd(RSumTo(v, n - 1), v[n - 1])

\* ---------------------------------------------------------------- UTF-8
Cont(s, i) == i <= Len(s) /\ s[i] >= 128 /\ s[i] <= 191
InRange(s, i, lo, hi) == i <= Len(s) /\ s[i] >= lo /\ s[i] <= hi

\* The size of the rune that starts at byte i of s; 0 when the bytes there
\* are no valid encoding (utf8.DecodeRuneInString gives RuneError, size 1).
RuneSize(s, i) ==
    LET b == s[i] IN
    IF b < 128 THEN 1
    ELSE IF b >= 194 /\ b <= 223 THEN (IF Cont(s, i + 1) THEN 2 ELSE 0)
    ELSE IF b = 224 THEN
        (IF InRange(s, i + 1, 160, 191) /\ Cont(s, i + 2) THEN 3 ELSE 0)
    ELSE IF b = 237 THEN
        (IF InRange(s, i + 1, 128, 159) /\ Cont(s, i + 2) THEN 3 ELSE 0)
    ELSE IF b >= 225 /\ b <= 239 THEN
        (IF Cont(s, i + 1) /\ Cont(s, i + 2) THEN 3 ELSE 0)
    ELSE IF b = 240 THEN
        (IF InRange(s, i + 1, 144, 191) /\ Cont(s, i + 2) /\ Cont(s, i + 3)
         THEN 4 ELSE 0)
    ELSE IF b >= 241 /\ b <= 243 THEN
        (IF Cont(s, i + 1) /\ Cont(s, i + 2) /\ Cont(s, i + 3) THEN 4 ELSE 0)
    ELSE IF b = 244 THEN
        (IF InRange(s, i + 1, 128, 143) /\ Cont(s, i + 2) /\ Cont(s, i + 3)
         THEN 4 ELSE 0)
    ELSE 0

\* U+FFFD, the replacement character, in UTF-8.
ReplacementChar == <<239, 191, 189>>

RECURSIVE CoerceFrom(_, _)
CoerceFrom(s, i) ==
    IF i > Len(s) THEN <<>>
    ELSE LET n == RuneSize(s, i) IN
         IF n = 0 THEN ReplacementChar \o CoerceFrom(s, i + 1)
         ELSE SubSeq(s, i, i + n - 1) \o CoerceFrom(s, i + n)

\* A string as json.Marshal writes it and json.Unmarshal reads it back:
\* every byte that starts no valid rune becomes U+FFFD.
JSONString(s) == CoerceFrom(s, 1)


\* ------------------------------------------------------ JSON object keys
RECURSIVE Itoa(_)
\* strconv.Itoa of a count or ID (never negative here): its decimal digits.
Itoa(n) == IF n < 10 THEN <<48 + n>> ELSE Itoa(n \div 10) \o <<48 + (n % 10)>>

RECURSIVE Atoi(_)
\* strconv.Atoi of a string of decimal digits.
Atoi(s) ==
    IF Len(s) = 1 THEN s[1] - 48
    ELSE 10 * Atoi(SubSeq(s, 1, Len(s) - 1)) + (s[Len(s)] - 48)

\* A map[int]int as a JSON object: the keys are written in decimal.
JSONMap(m) == [k \in {Itoa(x) : x \in DOMAIN m} |-> m[Atoi(k)]]

\* A map[int]map[int]int as a JSON object of JSON objects.
JSONMapOfMaps(m) == [k \in {Itoa(x) : x \in DOMAIN m} |-> JSONMap(m[Atoi(k)])]

\* A JSON object read back into a map[int]int.
ParseMap(o) == [x \in {Atoi(k) : k \in DOMAIN o} |-> o[Itoa(x)]]

\* A JSON object of JSON objects read back into a map[int]map[int]int.
ParseMapOfMaps(o) == [x \in {Atoi(k) : k \in DOMAIN o} |-> ParseMap(o[Itoa(x)])]

\* ---------------------------------------------------------------- words
Empty == <<>>
buy == <<98, 117, 121>>
now == <<110, 111, 119>>
hello == <<104, 101, 108, 108, 111>>
friend == <<102, 114, 105, 101, 110, 100>>
spam == <<115, 112, 97, 109>>
ham == <<104, 97, 109>>
\* One byte that is no UTF-8 (a word of a Shift-JIS or Latin-1 text).
rawByte == <<255>>

\* -------------------------------------------------------- configuration
\* The zero Config, the value of conf before the package's Init is called.
makeDefaultConfig ==
    [UseStopWords |-> FALSE, StopWords |-> <<>>, StopWordClasses |-> <<>>]

\* strings.HasPrefix(x, p)
HasPrefix(x, p) == Len(p) <= Len(x) /\ SubSeq(x, 1, Len(p)) = p

IsStopWord(c, x) ==
    \/ \E i \in 1..Len(c.StopWords) : x = c.StopWords[i]
    \/ \E i \in 1..Len(c.StopWordClasses) : HasPrefix(x, c.StopWordClasses[i])

\* The test that drops a word from a document, in Add and in Predict.
Skipped(c, word) == word = Empty \/ (c.UseStopWords /\ IsStopWord(c, word))

\* --------------------------------------------------------------- corpus
New(note, labelNames) ==
    LET labelCount == Len(labelNames) IN
    [ Note           |-> note,
      LabelNames     |-> Slice(labelNames),
      LabelCount     |-> labelCount,
      Words          |-> <<>>,
      WordCount      |-> 0,
      WordDocCount   |-> <<>>,
      DocCount       |-> 0,
      LWF            |-> [l \in 0..(labelCount - 1) |-> <<>>],
      LabelWordCount |-> <<>>,
      PL             |-> [l \in 0..(labelCount - 1) |-> Rat(1, labelCount)],
      LabelDocCount  |-> MakeSlice(labelCount, 0),
      idxs           |-> <<>> ]

RECURSIVE TokenizeNoFreq(_, _, _, _)
\* Tokenize with a slip: freqWord[wordID] is set to 1, not counted up.
TokenizeNoFreq(d, c, words, freqWord) ==
    IF words = <<>> THEN [dd |-> d, freqWord |-> freqWord]
    ELSE LET word == Head(words) IN
         IF Skipped(c, word) THEN TokenizeNoFreq(d, c, Tail(words), freqWord)
         ELSE LET d1 == IF word \in DOMAIN d.idxs THEN d
                        ELSE [d EXCEPT !.idxs = Put(d.idxs, word, d.WordCount),
                                       !.WordCount = d.WordCount + 1]
                  wordID == d1.idxs[word]
              IN TokenizeNoFreq(d1, c, Tail(words), Put(freqWord, wordID, 1))

RECURSIVE Tokenize(_, _, _, _)
\* The loop over the words of a document, the same in Add and in Predict:
\* a word not yet in idxs gets the ID WordCount; freqWord counts the
\* occurrences of each word ID in the document.
Tokenize(d, c, words, freqWord) ==
    IF words = <<>> THEN [dd |-> d, freqWord |-> freqWord]
    ELSE LET word == Head(words) IN
         IF Skipped(c, word) THEN Tokenize(d, c, Tail(words), freqWord)
         ELSE LET d1 == IF word \in DOMAIN d.idxs THEN d
                        ELSE [d EXCEPT !.idxs = Put(d.idxs, word, d.WordCount),
                                       !.WordCount = d.WordCount + 1]
                  wordID == d1.idxs[word]
              IN Tokenize(d1, c, Tail(words),
                          Put(freqWord, wordID, Get(freqWord, wordID) + 1))

PanicNilMap == "panic: assignment to entry in nil map"
PanicIndex == "panic: index out of range"
PanicPL == "panic: dd.LabelDocCount[labelID]+1 > dd.DocCount+dd.LabelCount !!"

\* CountWord with a slip: LabelWordCount grows by 1 for each word, not by
\* the number of its occurrences in the document.
CountWordOnce(d, wordID, labelID, n) ==
    LET d1 == [d EXCEPT !.WordDocCount =
                   Put(d.WordDocCount, wordID, Get(d.WordDocCount, wordID) + 1)]
    IN IF labelID \notin DOMAIN d1.LWF
       THEN [dd |-> d1, err |-> PanicNilMap]
       ELSE [dd |-> [d1 EXCEPT
                 !.LWF = Put(d1.LWF, labelID,
                     Put(d1.LWF[labelID], wordID, Get(d1.LWF[labelID], wordID) + n)),
                 !.LabelWordCount = Put(d1.LabelWordCount, labelID,
                     Get(d1.LabelWordCount, labelID) + 1)],
             err |-> ""]

\* The body of the inner loop of Add for one word ID and one label ID.
CountWord(d, wordID, labelID, n) ==
    LET d1 == [d EXCEPT !.WordDocCount =
                   Put(d.WordDocCount, wordID, Get(d.WordDocCount, wordID) + 1)]
    IN IF labelID \notin DOMAIN d1.LWF
       THEN [dd |-> d1, err |-> PanicNilMap]
       ELSE [dd |-> [d1 EXCEPT
                 !.LWF = Put(d1.LWF, labelID,
                     Put(d1.LWF[labelID], wordID, Get(d1.LWF[labelID], wordID) + n)),
                 !.LabelWordCount = Put(d1.LabelWordCount, labelID,
                     Get(d1.LabelWordCount, labelID) + n)],
             err |-> ""]

RECURSIVE CountLabels(_, _, _, _)
\* The inner loop of Add: the labels of the document, for one word ID.
CountLabels(d, wordID, labels, n) ==
    IF labels = <<>> THEN [dd |-> d, err |-> ""]
    ELSE LET s == CountWord(d, wordID, Head(labels), n) IN
         IF s.err # "" THEN s ELSE CountLabels(s.dd, wordID, Tail(labels), n)

RECURSIVE CountWords(_, _, _, _)
\* The outer loop of Add, over the word IDs of freqWord in the order the
\* map iteration takes.
CountWords(d, order, labels, freqWord) ==
    IF order = <<>> THEN [dd |-> d, err |-> ""]
    ELSE LET s == CountLabels(d, Head(order), labels, freqWord[Head(order)]) IN
         IF s.err # "" THEN s ELSE CountWords(s.dd, Tail(order), labels, freqWord)

\* CountDocs with a slip: only the first label of the list is counted.
CountDocsFirstOnly(d, labels) ==
    IF labels = <<>> THEN [dd |-> d, err |-> ""]
    ELSE LET labelID == Head(labels) IN
         IF labelID \notin DOMAIN d.LabelDocCount
         THEN [dd |-> d, err |-> PanicIndex]
         ELSE [dd |-> [d EXCEPT !.LabelDocCount[labelID] = @ + 1], err |-> ""]

RECURSIVE CountDocs(_, _)
\* The last loop of Add: one more document for each label of the list.
CountDocs(d, labels) ==
    IF labels = <<>> THEN [dd |-> d, err |-> ""]
    ELSE LET labelID == Head(labels) IN
         IF labelID \notin DOMAIN d.LabelDocCount
         THEN [dd |-> d, err |-> PanicIndex]
         ELSE CountDocs([d EXCEPT !.LabelDocCount[labelID] = @ + 1], Tail(labels))

\* The orders in which a range over a map may visit its keys.
Orders(keys) ==
    {o \in [1..Cardinality(keys) -> keys] : \A i, j \in DOMAIN o : i # j => o[i] # o[j]}

\* Add, with the range over freqWord visiting the word IDs in the given order.
AddRun(d, c, words, labels, order) ==
    LET t  == Tokenize(d, c, words, <<>>)
        d1 == [t.dd EXCEPT !.DocCount = @ + 1]
        s  == CountWords(d1, order, labels, t.freqWord)
    IN IF s.err # "" THEN s ELSE CountDocs(s.dd, labels)

\* The word IDs of a document, as Add and Predict see them.
FreqWord(d, c, words) == Tokenize(d, c, words, <<>>).freqWord


RECURSIVE UpdatePLFromOneExtra(_, _)
\* UpdatePL with a slip: the denominator is DocCount + 1, not DocCount +
\* LabelCount.
UpdatePLFromOneExtra(d, labelID) ==
    IF labelID >= d.LabelCount THEN [dd |-> d, err |-> ""]
    ELSE IF d.LabelDocCount[labelID] + 1 > d.DocCount + d.LabelCount
         THEN [dd |-> d, err |-> PanicPL]
         ELSE UpdatePLFromOneExtra(
                  [d EXCEPT !.PL[labelID] =
                       Rat(d.LabelDocCount[labelID] + 1, d.DocCount + 1)],
                  labelID + 1)

RECURSIVE UpdatePLFrom(_, _)
\* The loop of UpdatePL from labelID on.
UpdatePLFrom(d, labelID) ==
    IF labelID >= d.LabelCount THEN [dd |-> d, err |-> ""]
    ELSE IF d.LabelDocCount[labelID] + 1 > d.DocCount + d.LabelCount
         THEN [dd |-> d, err |-> PanicPL]
         ELSE UpdatePLFrom(
                  [d EXCEPT !.PL[labelID] =
                       Rat(d.LabelDocCount[labelID] + 1, d.DocCount + d.LabelCount)],
                  labelID + 1)

UpdatePL(d) == UpdatePLFrom(d, 0)

\* The fraction whose logarithm PWL returns.
PWL(d, labelID, wordID) ==
    Rat(Get(d.LWF[labelID], wordID) + 1,
        Get(d.LabelWordCount, labelID) + d.WordCount)

RECURSIVE ProdPWL(_, _, _)
\* exp of the sum of PWL(labelID, wordID) over the word IDs of a document.
ProdPWL(d, labelID, wordIDs) ==
    IF wordIDs = {} THEN <<1, 1>>
    ELSE LET w == CHOOSE x \in wordIDs : TRUE
         IN RMul(PWL(d, labelID, w), ProdPWL(d, labelID, wordIDs \ {w}))

\* PLD: the priors are refreshed, then each label's score is taken out of
\* log space and divided by the sum of the scores.
PLD(d, wordFreq) ==
    LET u   == UpdatePL(d)
        score == [l \in 0..(d.LabelCount - 1) |->
                   RMul(u.dd.PL[l], ProdPWL(u.dd, l, DOMAIN wordFreq))]
        sum == RSumTo(score, d.LabelCount)
    IN IF u.err # "" THEN [dd |-> u.dd, r |-> <<>>, err |-> u.err]
       ELSE [dd |-> u.dd,
             r |-> [l \in 0..(d.LabelCount - 1) |-> RDiv(score[l], sum)],
             err |-> ""]

RECURSIVE ArgMaxLast(_, _, _, _)
\* ArgMax with a slip: >= for >, so that a tie goes to the later label.
ArgMaxLast(pld, labelCount, labelID, maxLabelID) ==
    IF labelID >= labelCount THEN maxLabelID
    ELSE ArgMaxLast(pld, labelCount, labelID + 1,
                    IF RGe(pld[labelID], pld[maxLabelID]) THEN labelID ELSE maxLabelID)

RECURSIVE ArgMax(_, _, _, _)
\* The scan of Predict over the labels, from labelID on.
ArgMax(pld, labelCount, labelID, maxLabelID) ==
    IF labelID >= labelCount THEN maxLabelID
    ELSE ArgMax(pld, labelCount, labelID + 1,
                IF RGt(pld[labelID], pld[maxLabelID]) THEN labelID ELSE maxLabelID)

\* Predict with a slip: the document is counted, as Add counts it.
PredictCounting(d, c, words) ==
    LET t == Tokenize(d, c, words, <<>>)
        p == PLD([t.dd EXCEPT !.DocCount = @ + 1], t.freqWord)
    IN IF p.err # "" THEN [dd |-> p.dd, r |-> 0, pld |-> <<>>, err |-> p.err]
       ELSE [dd |-> p.dd, r |-> ArgMax(p.r, p.dd.LabelCount, 0, 0),
             pld |-> p.r, err |-> ""]

Predict(d, c, words) ==
    LET t == Tokenize(d, c, words, <<>>)
        p == PLD(t.dd, t.freqWord)
    IN IF p.err # "" THEN [dd |-> p.dd, r |-> 0, pld |-> <<>>, err |-> p.err]
       ELSE [dd |-> p.dd, r |-> ArgMax(p.r, p.dd.LabelCount, 0, 0),
             pld |-> p.r, err |-> ""]

RECURSIVE FillWords(_, _, _)
\* The loop of updateWords over idxs, in the order the map iteration takes.
FillWords(words, idxs, order) ==
    IF order = <<>> THEN [Words |-> words, err |-> ""]
    ELSE LET word == Head(order) IN
         IF idxs[word] \notin DOMAIN words THEN [Words |-> words, err |-> PanicIndex]
         ELSE FillWords([words EXCEPT ![idxs[word]] = word], idxs, Tail(order))

updateWords(d, order) ==
    LET f == FillWords(MakeSlice(Cardinality(DOMAIN d.idxs), Empty), d.idxs, order)
    IN [dd |-> [d EXCEPT !.Words = f.Words], err |-> f.err]

\* json.Marshal of a Bow: the exported fields, idxs left out.
Marshal(d) ==
    [ note           |-> JSONString(d.Note),
      labelnames     |-> [i \in DOMAIN d.LabelNames |-> JSONString(d.LabelNames[i])],
      labelcount     |-> d.LabelCount,
      words          |-> [i \in DOMAIN d.Words |-> JSONString(d.Words[i])],
      wordcount      |-> d.WordCount,
      worddoccount   |-> JSONMap(d.WordDocCount),
      doccount       |-> d.DocCount,
      lwf            |-> JSONMapOfMaps(d.LWF),
      labelwordcount |-> JSONMap(d.LabelWordCount),
      pl             |-> d.PL,
      labeldoccount  |-> d.LabelDocCount ]

\* The loop of Load that rebuilds idxs: a later index overwrites an earlier one.
RebuildIdxs(words) ==
    [w \in {words[i] : i \in DOMAIN words} |->
        CHOOSE i \in DOMAIN words :
            words[i] = w /\ \A j \in DOMAIN words : words[j] = w => j <= i]

\* Load of a file that Save wrote.
Load(j) ==
    [ Note           |-> j.note,
      LabelNames     |-> j.labelnames,
      LabelCount     |-> j.labelcount,
      Words          |-> j.words,
      WordCount      |-> j.wordcount,
      WordDocCount   |-> ParseMap(j.worddoccount),
      DocCount       |-> j.doccount,
      LWF            |-> ParseMapOfMaps(j.lwf),
      LabelWordCount |-> ParseMap(j.labelwordcount),
      PL             |-> j.pl,
      LabelDocCount  |-> j.labeldoccount,
      idxs           |-> RebuildIdxs(j.words) ]


\* -------------------------------------------------------------- actions
NoRet == [r |-> 0, pld |-> <<>>, err |-> ""]
Call(name, words, labels) == [name |-> name, words |-> words, labels |-> labels]

\* One more call, made by a program that has not panicked.
Called(name, words, labels) ==
    /\ err = ""
    /\ calls < MaxCalls
    /\ calls' = calls + 1
    /\ op' = Call(name, words, labels)

\* Init of the package: conf = c.
InitConf(c) ==
    /\ Called("Init", <<>>, <<>>)
    /\ conf' = c
    /\ ret' = NoRet
    /\ UNCHANGED <<dd, disk, err, labelLens>>

\* dd.Add(id, words, labels); a panic ends the program.
Add(words, labels, order) ==
    /\ Called("Add", words, labels)
    /\ LET s == AddRun(dd, conf, words, labels, order) IN
        /\ dd' = s.dd
        /\ err' = s.err
    /\ ret' = NoRet
    /\ labelLens' = labelLens \cup {Len(labels)}
    /\ UNCHANGED <<conf, disk>>

\* r, pld := dd.Predict(words)
PredictCall(words) ==
    /\ Called("Predict", words, <<>>)
    /\ LET s == Predict(dd, conf, words) IN
        /\ dd' = s.dd
        /\ err' = s.err
        /\ ret' = [r |-> s.r, pld |-> s.pld, err |-> ""]
    /\ UNCHANGED <<conf, disk, labelLens>>

\* dd.UpdatePL()
UpdatePLCall ==
    /\ Called("UpdatePL", <<>>, <<>>)
    /\ LET s == UpdatePL(dd) IN
        /\ dd' = s.dd
        /\ err' = s.err
    /\ ret' = NoRet
    /\ UNCHANGED <<conf, disk, labelLens>>

\* err := dd.Save(outFile); created says whether os.Create succeeded.
Save(order, created) ==
    /\ Called("Save", <<>>, <<>>)
    /\ LET s == updateWords(dd, order) IN
        /\ dd' = s.dd
        /\ err' = s.err
        /\ IF s.err = "" /\ created
           THEN disk' = <<Marshal(s.dd)>> /\ ret' = NoRet
           ELSE disk' = disk /\
                ret' = [NoRet EXCEPT !.err = IF s.err = "" THEN "create failed" ELSE ""]
    /\ UNCHANGED <<conf, labelLens>>

\* dd, err := Load(inFile)
LoadCall ==
    /\ Called("Load", <<>>, <<>>)
    /\ IF disk = <<>>
       THEN dd' = dd /\ ret' = [NoRet EXCEPT !.err = "read failed"]
       ELSE dd' = Load(disk[1]) /\ ret' = NoRet
    /\ UNCHANGED <<conf, disk, err, labelLens>>

\* --------------------------------------------------------------- inputs
\* Documents: none, a repeated word, two words of which one is no UTF-8,
\* and an empty token before a word.
WordLists == {<<>>, <<buy, buy>>, <<buy, rawByte>>, <<Empty, ReplacementChar>>}

\* Documents to classify: a word the corpus may know, and a word after an
\* empty token.
QueryLists == {<<buy, buy>>, <<Empty, ReplacementChar>>}

\* Label lists: none, one label, two labels, one label twice, and lists
\* with an ID that is out of range for some or all of the corpora.
LabelLists == {<<>>, <<0>>, <<1>>, <<0, 1>>, <<0, 0>>, <<1, 2>>}

LabelNameLists == {<<>>, <<spam>>, <<spam, ham>>}

\* No stop words; or the word rawByte and every word that starts with "b".
Confs ==
    { makeDefaultConfig,
      [UseStopWords |-> TRUE, StopWords |-> <<rawByte>>,
       StopWordClasses |-> << <<98>> >>] }

WordIDs(words) == DOMAIN FreqWord(dd, conf, words)

\* -------------------------------------------------------- specification
Init ==
    /\ dd \in {New(<<>>, names) : names \in LabelNameLists}
    /\ conf = makeDefaultConfig
    /\ disk = <<>>
    /\ op = Call("New", <<>>, <<>>)
    /\ ret = NoRet
    /\ err = ""
    /\ labelLens = {}
    /\ calls = 0

Next ==
    \/ \E c \in Confs : InitConf(c)
    \/ \E words \in WordLists, labels \in LabelLists :
           \E order \in Orders(WordIDs(words)) : Add(words, labels, order)
    \/ \E words \in QueryLists : PredictCall(words)
    \/ UpdatePLCall
    \/ \E order \in Orders(DOMAIN dd.idxs), created \in BOOLEAN : Save(order, created)
    \/ LoadCall

Spec == Init /\ [][Next]_vars

\* The example of the documentation: labels spam and ham, two documents.
ExampleDocs == {<<buy, now, buy>>, <<hello, friend>>, <<buy, buy>>}

ExampleConfs ==
    { makeDefaultConfig,
      [UseStopWords |-> TRUE, StopWords |-> <<now>>, StopWordClasses |-> <<>>] }

InitExample ==
    /\ dd = New(<<>>, <<spam, ham>>)
    /\ conf = makeDefaultConfig
    /\ disk = <<>>
    /\ op = Call("New", <<>>, <<>>)
    /\ ret = NoRet
    /\ err = ""
    /\ labelLens = {}
    /\ calls = 0

NextExample ==
    \/ \E c \in ExampleConfs : InitConf(c)
    \/ \E words \in ExampleDocs, labels \in LabelLists :
           \E order \in Orders(WordIDs(words)) : Add(words, labels, order)
    \/ \E words \in ExampleDocs : PredictCall(words)

SpecExample == InitExample /\ [][NextExample]_vars


\* --------------------------------------------------------------- claims
Labels == 0..(dd.LabelCount - 1)

\* A step that is a call of the named operation (never a stuttering step).
Step(name) == calls' = calls + 1 /\ op'.name = name

\* C1: after any sequence of Add calls with in-range labels, for every label
\* the sum over all word IDs of LWF[l][wordID] equals LabelWordCount[l].
C1_LabelWordTotals ==
    err = "" => \A l \in Labels : MapSum(dd.LWF[l]) = Get(dd.LabelWordCount, l)

\* A label has counted two different words, one of them more than once.
C1_Witness ==
    /\ err = ""
    /\ \E l \in Labels :
          /\ Cardinality(DOMAIN dd.LWF[l]) >= 2
          /\ \E w \in DOMAIN dd.LWF[l] : dd.LWF[l][w] >= 2

\* C2: an Add call that fails on a label ID out of range leaves DocCount,
\* WordDocCount, LWF, LabelWordCount and LabelDocCount as they were.
C2_FailedAddChangesNothing ==
    [][(Step("Add") /\ err' # "") =>
          /\ dd'.DocCount = dd.DocCount
          /\ dd'.WordDocCount = dd.WordDocCount
          /\ dd'.LWF = dd.LWF
          /\ dd'.LabelWordCount = dd.LabelWordCount
          /\ dd'.LabelDocCount = dd.LabelDocCount]_vars

\* C3: after any sequence of operations the forward table and the reverse
\* index agree: len(Words) = WordCount = len(idxs), and idxs[Words[i]] = i
\* for every i below WordCount.
C3_TablesAgree ==
    err = "" =>
        /\ Cardinality(DOMAIN dd.Words) = dd.WordCount
        /\ Cardinality(DOMAIN dd.idxs) = dd.WordCount
        /\ \A i \in 0..(dd.WordCount - 1) :
              /\ i \in DOMAIN dd.Words
              /\ dd.Words[i] \in DOMAIN dd.idxs
              /\ dd.idxs[dd.Words[i]] = i

\* The priors have just been refreshed, by UpdatePL itself or by Predict.
Refreshed == op.name \in {"UpdatePL", "Predict"} /\ err = "" /\ dd.LabelCount >= 1

PriorSum == RSumTo(dd.PL, dd.LabelCount)

\* C4, as claimed: after UpdatePL, when every document added carried one or
\* more in-range labels, the priors sum to 1.
C4_PriorsSumToOne_OneOrMore ==
    (Refreshed /\ 0 \notin labelLens) => PriorSum = <<1, 1>>

\* C4, amended: after UpdatePL, when every document added carried exactly
\* one in-range label, the priors sum to 1.
C4_PriorsSumToOne_ExactlyOne ==
    (Refreshed /\ labelLens \subseteq {1}) => PriorSum = <<1, 1>>

\* The priors were refreshed after two documents of one label each.
C4_Witness ==
    /\ Refreshed /\ labelLens = {1} /\ dd.DocCount = 2
    /\ \E l \in Labels : dd.PL[l] # Rat(1, dd.LabelCount)

\* Every field of the corpus but DocCount.
Strip(d) == [d EXCEPT !.DocCount = 0]

C6_PredictKeepsCounts ==
    [][(Step("Predict") /\ err' = "") =>
          /\ dd'.DocCount = dd.DocCount
          /\ dd'.LabelDocCount = dd.LabelDocCount
          /\ dd'.LWF = dd.LWF
          /\ dd'.LabelWordCount = dd.LabelWordCount
          /\ dd'.WordDocCount = dd.WordDocCount
          /\ dd'.WordCount >= dd.WordCount
          /\ \A w \in DOMAIN dd.idxs :
                w \in DOMAIN dd'.idxs /\ dd'.idxs[w] = dd.idxs[w]
          /\ [dd' EXCEPT !.idxs = <<>>, !.WordCount = 0, !.PL = <<>>]
               = [dd EXCEPT !.idxs = <<>>, !.WordCount = 0, !.PL = <<>>]]_vars

\* Predict returned on a corpus with documents, and met a word new to it.
C6_Witness ==
    /\ op.name = "Predict" /\ err = ""
    /\ dd.DocCount >= 1 /\ dd.WordDocCount # <<>>
    /\ Cardinality(DOMAIN dd.idxs) > Cardinality(DOMAIN dd.WordDocCount)

ExampleStep ==
    /\ calls = 1 /\ op = Call("Add", <<buy, now, buy>>, <<0>>)
    /\ ~conf.UseStopWords
    /\ calls' = 2 /\ op' = Call("Add", <<hello, friend>>, <<1>>)

\* C7, as claimed: without stop words, on a new corpus of labels spam and
\* ham, after Add([buy, now, buy], [0]) and Add([hello, friend], [1]):
\* DocCount = 2, LabelDocCount = [1, 1], LWF[0][buy] = 2,
\* LabelWordCount[0] = 2 and LabelWordCount[1] = 2.
C7_Example_AsClaimed ==
    [][ExampleStep =>
          /\ dd'.DocCount = 2
          /\ dd'.LabelDocCount = Slice(<<1, 1>>)
          /\ Get(dd'.LWF[0], dd'.idxs[buy]) = 2
          /\ Get(dd'.LabelWordCount, 0) = 2
          /\ Get(dd'.LabelWordCount, 1) = 2]_vars

\* C7, amended: the same, with LabelWordCount[0] = 3 (buy twice, now once).
C7_Example ==
    [][ExampleStep =>
          /\ dd'.DocCount = 2
          /\ dd'.LabelDocCount = Slice(<<1, 1>>)
          /\ Get(dd'.LWF[0], dd'.idxs[buy]) = 2
          /\ Get(dd'.LabelWordCount, 0) = 3
          /\ Get(dd'.LabelWordCount, 1) = 2]_vars

\* The two documents of the example have been added, in this order.
C7_Witness ==
    /\ calls = 2 /\ op = Call("Add", <<hello, friend>>, <<1>>) /\ err = ""
    /\ ~conf.UseStopWords
    /\ dd.DocCount = 2 /\ dd.LabelDocCount[0] = 1
    /\ DOMAIN dd.idxs = {buy, now, hello, friend} /\ dd.idxs[buy] = 0

Persistent(d) == [d EXCEPT !.Note = <<>>, !.Words = <<>>]

\* C9: a successful Save followed by Load yields a corpus with the same
\* label names, counts, PL and reverse index as the corpus saved.
C9_RoundTrip ==
    [][(/\ op.name = "Save" /\ ret.err = "" /\ err = ""
        /\ Step("Load")) => Persistent(dd') = Persistent(dd)]_vars

\* C10: with in-range labels only, LabelDocCount[l] + 1 <= DocCount +
\* LabelCount for every label, and UpdatePL never panics.
C10_SmoothingBound ==
    /\ err # PanicPL
    /\ err = "" => \A l \in Labels :
                       dd.LabelDocCount[l] + 1 <= dd.DocCount + dd.LabelCount

=============================================================================
